---- MODULE Spec2Model ----
(***************************************************************************)
(* Model of the ImageJ ROI codec of napari-ijroi-reader:                   *)
(*   encode_roi / decode_roi       (napari_ijroi_reader/ijroi_utils.py)    *)
(*   ijroi_read_binary / ijroizip_reader                                   *)
(*                                 (napari_ijroi_reader/napari_ijroi_reader.py) *)
(* A stream is a sequence of bytes (0..255); struct.pack / struct.unpack   *)
(* are modelled byte by byte (big-endian two's complement shorts and ints, *)
(* IEEE-754 binary32 floats).  Points are (row, column) pairs.             *)
(***************************************************************************)
EXTENDS Integers, Sequences, FiniteSets, TLC

VARIABLES
    pc,           \* "encode" | "decode" | "zip" | "done": the next call to make
    roi_type,     \* argument roi_type of encode_roi
    points,       \* argument points of encode_roi, an (N, 2) integer array
    file,         \* contents of the file handler (a byte sequence)
    written,      \* outcome of encode_roi: "none" | "ok" | exception class
    decoded,      \* outcome of decode_roi on `file`
    zip_file,     \* the archive: a sequence of entries, each a byte sequence
    name_idx,     \* position of the loop over zip_file.namelist()
    shape_types,  \* local list shape_types of ijroizip_reader
    data,         \* local list data of ijroizip_reader
    layer_data    \* outcome of ijroizip_reader

vars == <<pc, roi_type, points, file, written, decoded,
          zip_file, name_idx, shape_types, data, layer_data>>

----------------------------------------------------------------------------
(* Bounds of the model. *)

MaxLen == 3         \* longest point sequence handed to encode_roi
MaxEntries == 3     \* most entries in an archive
MaxCoords == 2      \* largest NCoordinates of a hand-built record

----------------------------------------------------------------------------
(* struct: big-endian packing and unpacking. *)

Pow2(n) == 2 ^ n

InInt16(v) == v >= -32768 /\ v <= 32767

\* two's complement of a short / an int as an unsigned number
U16(v) == v % 65536

\* '>h'
PackH(v) == << U16(v) \div 256, U16(v) % 256 >>

UnpackH(b) == LET u == b[1] * 256 + b[2] IN IF u >= 32768 THEN u - 65536 ELSE u

\* '>i' (the high byte carries the sign; the low three bytes are v mod 2^24)
PackI(v) ==
    LET lo == v % 16777216
        hi == ((v - lo) \div 16777216) % 256
    IN  << hi, lo \div 65536, (lo \div 256) % 256, lo % 256 >>

UnpackI(b) ==
    LET hi == IF b[1] >= 128 THEN b[1] - 256 ELSE b[1]
    IN  hi * 16777216 + b[2] * 65536 + b[3] * 256 + b[4]

\* floor(log2(a)) for 1 <= a < 2^24
Log2(a) == CHOOSE e \in 0..23 : Pow2(e) <= a /\ a < Pow2(e + 1)

\* '>f' of an integer v with |v| < 2^24 (exactly representable in binary32)
PackF(v) ==
    IF v = 0 THEN << 0, 0, 0, 0 >>
    ELSE LET sign == IF v < 0 THEN 1 ELSE 0
             a    == IF v < 0 THEN -v ELSE v
             e    == Log2(a)
             expo == 127 + e
             frac == (a - Pow2(e)) * Pow2(23 - e)
         IN  << sign * 128 + expo \div 2,
                (expo % 2) * 128 + frac \div 65536,
                (frac \div 256) % 256,
                frac % 256 >>

\* fields of a binary32 given as its four bytes
F32Sign(b) == b[1] \div 128
F32Expo(b) == (b[1] % 128) * 2 + b[2] \div 128
F32Frac(b) == (b[2] % 128) * 65536 + b[3] * 256 + b[4]

\* the float truncated toward zero (finite floats of magnitude below 2^31)
F32Trunc(b) ==
    LET m     == Pow2(23) + F32Frac(b)
        shift == F32Expo(b) - 150
        a     == IF F32Expo(b) = 0 \/ shift < -23 THEN 0
                 ELSE IF shift >= 0 THEN m * Pow2(shift)
                 ELSE m \div Pow2(-shift)
    IN  IF F32Sign(b) = 1 THEN -a ELSE a

\* numpy: storing a float into an int16 array truncates it; the conversion
\* of a float outside the int16 range is undefined in C and yields `ub`
CastInt16(b, ub) ==
    IF F32Expo(b) >= 158 THEN ub          \* 2^31 and above, infinities, NaN
    ELSE IF InInt16(F32Trunc(b)) THEN F32Trunc(b)
    ELSE ub

\* int16 array arithmetic wraps around
WrapInt16(v) == LET u == U16(v) IN IF u >= 32768 THEN u - 65536 ELSE u

\* a sequence of shorts packed one after the other ('>%sh')
PackHs(vals) ==
    [i \in 1..(2 * Len(vals)) |->
        LET u == U16(vals[(i + 1) \div 2])
        IN  IF i % 2 = 1 THEN u \div 256 ELSE u % 256]

UnpackHs(b) == [i \in 1..(Len(b) \div 2) |-> UnpackH(<< b[2 * i - 1], b[2 * i] >>)]

\* file_handler.read(n) from offset `off` (0-based): at most n bytes
Read(stream, off, n) ==
    LET last == IF off + n <= Len(stream) THEN off + n ELSE Len(stream)
    IN  SubSeq(stream, off + 1, last)

----------------------------------------------------------------------------
(* Options *)

SUB_PIXEL_RESOLUTION == 128

\* options & flag, for a flag that is a power of two below 2^15
HasOption(options, flag) == (U16(options) \div flag) % 2 = 1

----------------------------------------------------------------------------
(* encode_roi *)

Magic == << 73, 111, 117, 116 >>     \* b'Iout'
Version == 227
ReservedByte == 48                   \* b'0'

Rows(pts) == [i \in 1..Len(pts) |-> pts[i][1]]     \* y_coords = points[:, 0]

ColsFromAxis0(pts) == [i \in 1..Len(pts) |-> pts[i][1]]

Cols(pts) == [i \in 1..Len(pts) |-> pts[i][2]]     \* x_coords = points[:, 1]

Min(vals) == CHOOSE v \in {vals[i] : i \in 1..Len(vals)} :
                \A i \in 1..Len(vals) : v <= vals[i]
Max(vals) == CHOOSE v \in {vals[i] : i \in 1..Len(vals)} :
                \A i \in 1..Len(vals) : v >= vals[i]

\* the values encode_roi hands to struct.pack, or the exception raised
\* before struct.pack is called
EncodeFields(t, pts) ==
    LET zero == [exc |-> "none", top |-> 0, left |-> 0, bottom |-> 0, right |-> 0,
                 n_coords |-> 0, x1 |-> 0, y1 |-> 0, x2 |-> 0, y2 |-> 0,
                 x_coords |-> Cols(pts), y_coords |-> Rows(pts)]
        fail == [zero EXCEPT !.exc = "ValueError", !.x_coords = << >>, !.y_coords = << >>]
    IN  IF t \in {0, 4, 7} THEN [zero EXCEPT !.n_coords = Len(pts)]
        ELSE IF t = 1 THEN
            IF Len(pts) = 0 THEN fail     \* np.min of an empty array
            ELSE [zero EXCEPT !.top = Min(Rows(pts)), !.bottom = Max(Rows(pts)),
                              !.left = Min(Cols(pts)), !.right = Max(Cols(pts)),
                              !.x_coords = << >>, !.y_coords = << >>]
        ELSE IF t = 2 THEN
            IF Len(pts) = 0 THEN fail
            ELSE [zero EXCEPT !.bottom = Min(Rows(pts)), !.top = Max(Rows(pts)),
                              !.left = Min(Cols(pts)), !.right = Max(Cols(pts)),
                              !.x_coords = << >>, !.y_coords = << >>]
        ELSE IF t = 3 THEN
            IF Len(pts) # 2 THEN fail     \* y1_coord, y2_coord = y_coords
            ELSE [zero EXCEPT !.y1 = pts[1][1], !.y2 = pts[2][1],
                              !.x1 = pts[1][2], !.x2 = pts[2][2],
                              !.x_coords = << >>, !.y_coords = << >>]
        ELSE IF t \notin 0..255 THEN fail     \* bytes([roi_type])
        ELSE zero

\* struct.pack('>4shcchhhhhffffhiiihhcchii%sh' % (n_coords * 2), ...)
PackRecord(t, f) ==
    Magic \o PackH(Version) \o << t >> \o << ReservedByte >>
    \o PackH(f.top) \o PackH(f.left) \o PackH(f.bottom) \o PackH(f.right)
    \o PackH(f.n_coords)
    \o PackF(f.x1) \o PackF(f.y1) \o PackF(f.x2) \o PackF(f.y2)
    \o PackH(0)                          \* stroke width
    \o PackI(0)                          \* ShapeRoi size
    \o PackI(0)                          \* stroke color
    \o PackI(0)                          \* fill color
    \o PackH(0)                          \* subtype
    \o PackH(0)                          \* options
    \o << 0 >> \o << 0 >>                \* arrow style, arrow head size
    \o PackH(0)                          \* rounded rect arc size
    \o PackI(0)                          \* position
    \o PackI(0)                          \* header2 offset
    \o PackHs(f.x_coords) \o PackHs(f.y_coords)

\* encode_roi(roi_type, points, file_handler): the exception raised, or "ok"
\* and the bytes written
encode_roi(t, pts) ==
    LET f == EncodeFields(t, pts)
        shorts == << f.top, f.left, f.bottom, f.right, f.n_coords >>
                  \o f.x_coords \o f.y_coords
    IN  IF f.exc # "none" THEN [exc |-> f.exc, bytes |-> << >>]
        ELSE IF \/ Len(f.x_coords) + Len(f.y_coords) # 2 * f.n_coords
                \/ \E i \in 1..Len(shorts) : ~InInt16(shorts[i])
             THEN [exc |-> "struct.error", bytes |-> << >>]
        ELSE [exc |-> "ok", bytes |-> PackRecord(t, f)]

----------------------------------------------------------------------------
(* decode_roi *)

SupportedTypesAndPolyline == {0, 1, 2, 3, 4, 5, 7}

SupportedTypes == {0, 1, 2, 3, 4, 7}

\* struct.unpack('>4shcchhhhhffffhiiihhcchii', file_handler.read(64))
UnpackHeader(h) ==
    [magic          |-> SubSeq(h, 1, 4),
     version        |-> UnpackH(SubSeq(h, 5, 6)),
     roi_type       |-> h[7],                       \* ord(roi_type)
     top            |-> UnpackH(SubSeq(h, 9, 10)),
     left           |-> UnpackH(SubSeq(h, 11, 12)),
     bottom         |-> UnpackH(SubSeq(h, 13, 14)),
     right          |-> UnpackH(SubSeq(h, 15, 16)),
     n_coords       |-> UnpackH(SubSeq(h, 17, 18)),
     x1_coord       |-> SubSeq(h, 19, 22),
     y1_coord       |-> SubSeq(h, 23, 26),
     x2_coord       |-> SubSeq(h, 27, 30),
     y2_coord       |-> SubSeq(h, 31, 34),
     shape_roi_size |-> UnpackI(SubSeq(h, 37, 40)),
     subtype        |-> UnpackH(SubSeq(h, 49, 50)),
     options        |-> UnpackH(SubSeq(h, 51, 52))]

\* a raised exception
Raise(exc, msg) ==
    [exc |-> exc, msg |-> msg, roi_type |-> -1, ctype |-> "none",
     points |-> << >>, ellipse |-> << >>]

\* a returned (roi_type, points) tuple; for an oval, `ellipse` holds the
\* arguments of matplotlib's Ellipse, <<center, width, height>>, whose
\* get_verts() are the points
Return(t, ctype, pts, ell) ==
    [exc |-> "none", msg |-> "", roi_type |-> t, ctype |-> ctype,
     points |-> pts, ellipse |-> ell]

\* a value stored into an array of dtype ctype: int16 keeps the integer,
\* float32 keeps the four bytes of the binary32
StoreInt(ctype, v) == IF ctype = "float32" THEN PackF(v) ELSE v
StoreFloat(ctype, b, ub) == IF ctype = "float32" THEN b ELSE CastInt16(b, ub)

\* polygon, freeline, freehand: column offsets xs and row offsets ys, moved
\* by left and top (lines 207-211, dtype int16)
CoordPointsColumnFirst(xs, ys, top, left) ==
    [i \in 1..Len(xs) |-> << WrapInt16(xs[i] + left), WrapInt16(ys[i] + top) >>]

CoordPoints(xs, ys, top, left) ==
    [i \in 1..Len(xs) |-> << WrapInt16(ys[i] + top), WrapInt16(xs[i] + left) >>]

\* rect: the four corners (lines 213-217)
RectPointsClockwiseFromBottom(ctype, hd) ==
    << << StoreInt(ctype, hd.bottom), StoreInt(ctype, hd.left) >>,
       << StoreInt(ctype, hd.top), StoreInt(ctype, hd.left) >>,
       << StoreInt(ctype, hd.top), StoreInt(ctype, hd.right) >>,
       << StoreInt(ctype, hd.bottom), StoreInt(ctype, hd.right) >> >>

RectPoints(ctype, hd) ==
    << << StoreInt(ctype, hd.top), StoreInt(ctype, hd.left) >>,
       << StoreInt(ctype, hd.top), StoreInt(ctype, hd.right) >>,
       << StoreInt(ctype, hd.bottom), StoreInt(ctype, hd.right) >>,
       << StoreInt(ctype, hd.bottom), StoreInt(ctype, hd.left) >> >>

\* oval: the arguments of Ellipse(xy, width, height) (lines 219-223)
OvalEllipse(hd) ==
    LET height == hd.bottom - hd.top
        width  == hd.right - hd.left
    IN  << << hd.top + (height \div 2), hd.left + (width \div 2) >>, height, width >>

\* line: the two end points (lines 225-227)
LinePointsXY(ctype, hd, ub) ==
    << << StoreFloat(ctype, hd.x1_coord, ub), StoreFloat(ctype, hd.y1_coord, ub) >>,
       << StoreFloat(ctype, hd.x2_coord, ub), StoreFloat(ctype, hd.y2_coord, ub) >> >>

LinePoints(ctype, hd, ub) ==
    << << StoreFloat(ctype, hd.y1_coord, ub), StoreFloat(ctype, hd.x1_coord, ub) >>,
       << StoreFloat(ctype, hd.y2_coord, ub), StoreFloat(ctype, hd.x2_coord, ub) >> >>

\* the geometry of a record whose header passed the checks (lines 199-229)
DecodeGeometry(stream, hd, ub) ==
    LET subpix == HasOption(hd.options, SUB_PIXEL_RESOLUTION)
        ctype  == IF subpix THEN "float32" ELSE "int16"
        n      == hd.n_coords
        t      == hd.roi_type
    IN  IF t \in {0, 4, 7} THEN
            IF n < 0 THEN Raise("ValueError", "negative dimensions are not allowed")
            ELSE LET need == IF subpix THEN 4 * n ELSE 2 * n   \* calcsize(cformat)
                     xs   == Read(stream, 64, n * 2)
                     ys   == Read(stream, 64 + Len(xs), n * 2)
                 IN  IF Len(xs) # need \/ Len(ys) # need
                     THEN Raise("struct.error", "unpack requires a buffer")
                     ELSE IF subpix
                     THEN Return(t, ctype, << >>, << >>)     \* 2n = 4n: n = 0
                     ELSE Return(t, ctype,
                                 CoordPoints(UnpackHs(xs), UnpackHs(ys), hd.top, hd.left),
                                 << >>)
        ELSE IF t = 1 THEN Return(t, ctype, RectPoints(ctype, hd), << >>)
        ELSE IF t = 2 THEN Return(t, "float64", << >>, OvalEllipse(hd))
        ELSE Return(t, ctype, LinePoints(ctype, hd, ub), << >>)

\* the checks of the header (lines 186-197)
MagicOkFirstByte(magic) == magic[1] = Magic[1]

MagicOk(magic) == magic = Magic

TypeInRange(t) == 0 <= t /\ t < 11

ShapeRoiSizeOk(size) == ~(size > 0)

SubtypeOk(subtype) == ~(subtype # 0)

\* decode_roi(file_handler) on a handler positioned at the start of `stream`
decode_roi(stream, ub) ==
    IF Len(stream) < 64 THEN Raise("struct.error", "unpack requires a buffer of 64 bytes")
    ELSE LET hd == UnpackHeader(Read(stream, 0, 64))
         IN  IF ~MagicOk(hd.magic) THEN Raise("IOError", "Magic number not found")
             ELSE IF ~TypeInRange(hd.roi_type)
                  THEN Raise("ValueError", "ROI type not supported")
             ELSE IF hd.roi_type \notin SupportedTypes
                  THEN Raise("ValueError", "ROI type not supported")
             ELSE IF ~ShapeRoiSizeOk(hd.shape_roi_size)
                  THEN Raise("ValueError", "Shape ROI size not supported (!= 0)")
             ELSE IF ~SubtypeOk(hd.subtype)
                  THEN Raise("ValueError", "ROI subtype not supported (!= 0)")
             ELSE DecodeGeometry(stream, hd, ub)

----------------------------------------------------------------------------
(* ijroi_read_binary *)

ShapeTypeOfFreelinePolygon(t) ==
    IF t \in {0, 1, 2, 4, 7} THEN "polygon"
    ELSE IF t \in {3} THEN "path"
    ELSE "None"

ShapeTypeOf(t) ==
    IF t \in {0, 1, 2, 7} THEN "polygon"
    ELSE IF t \in {3, 4} THEN "path"
    ELSE "None"

\* ijroi_read_binary(file_handler): (shape_type, points) or the exception
ijroi_read_binary(stream, ub) ==
    LET r == decode_roi(stream, ub)
    IN  IF r.exc # "none" THEN [exc |-> r.exc, shape_type |-> "None", roi |-> r]
        ELSE IF ShapeTypeOf(r.roi_type) = "None"
             THEN [exc |-> "ValueError", shape_type |-> "None", roi |-> r]
        ELSE [exc |-> "none", shape_type |-> ShapeTypeOf(r.roi_type), roi |-> r]

----------------------------------------------------------------------------
(* Inputs *)

\* point sequences handed to encode_roi: (row, column) pairs, among them
\* the corners of the int16 range and one value outside of it
PointSamples ==
    { << 0, 0 >>, << 0, 10 >>, << 10, 20 >>, << -1, 300 >>,
      << -32768, 32767 >>, << 40000, 5 >> }

PointSeqs(maxlen) == UNION { [1..n -> PointSamples] : n \in 0..maxlen }

EncodeTypes == 0..10

\* outcomes of an out-of-range float to int16 conversion
UBVals == { -25536, -32768, 0 }

\* a record built by hand, field by field (h.x1 .. h.y2 are binary32 bytes)
CraftRecord(h) ==
    h.magic \o PackH(h.version) \o << h.roi_type >> \o << h.reserved >>
    \o PackH(h.top) \o PackH(h.left) \o PackH(h.bottom) \o PackH(h.right)
    \o PackH(h.n_coords)
    \o h.x1 \o h.y1 \o h.x2 \o h.y2
    \o PackH(0) \o PackI(h.shape_roi_size) \o PackI(0) \o PackI(0)
    \o PackH(h.subtype) \o PackH(h.options)
    \o << 0 >> \o << 0 >> \o PackH(0) \o PackI(0) \o PackI(0)
    \o h.payload

BadMagic == << 88, 111, 117, 116 >>     \* b'Xout'
BadMagic2 == << 73, 111, 117, 84 >>     \* b'IouT'
Magics == { Magic, BadMagic, BadMagic2 }

BlankHeader ==
    [magic |-> Magic, version |-> 227, roi_type |-> 0, reserved |-> 0,
     top |-> 0, left |-> 0, bottom |-> 0, right |-> 0, n_coords |-> 0,
     x1 |-> PackF(0), y1 |-> PackF(0), x2 |-> PackF(0), y2 |-> PackF(0),
     shape_roi_size |-> 0, subtype |-> 0, options |-> 0, payload |-> << >>]

FieldVals == { -1, 0, 1 }     \* values of ShapeRoi size and of subtype

\* every roi type byte, with either magic, ShapeRoi size and subtype
TypeSweep ==
    { CraftRecord([BlankHeader EXCEPT !.magic = m, !.roi_type = t, !.bottom = 10,
                                      !.right = 10, !.shape_roi_size = s, !.subtype = u])
        : m \in Magics, t \in 0..255, s \in FieldVals, u \in FieldVals }

\* payloads of n points: n column values then n row values, as shorts or as
\* floats
OffsetSamples == { << 0, 0 >>, << 3, -2 >> }
PayloadPoints == { << 0, 10 >>, << -5, 7 >> }

Floats(vals) ==
    [i \in 1..(4 * Len(vals)) |-> PackF(vals[(i + 3) \div 4])[((i - 1) % 4) + 1]]

PayloadOf(kind, pts) ==
    IF kind = "h" THEN PackHs(Cols(pts)) \o PackHs(Rows(pts))
    ELSE Floats(Cols(pts)) \o Floats(Rows(pts))

\* polygon, freeline and freehand records with a payload, complete or cut
\* short by one byte, and with a negative NCoordinates
CoordRecords(maxn) ==
    { LET full == CraftRecord([BlankHeader EXCEPT !.roi_type = t, !.top = o[1],
                                  !.left = o[2], !.n_coords = IF neg THEN -1 ELSE Len(pts),
                                  !.options = opt, !.payload = PayloadOf(kind, pts)])
      IN  SubSeq(full, 1, Len(full) - cut)
        : t \in {0, 4, 7}, o \in OffsetSamples, opt \in {0, 1, 128, 129},
          kind \in {"h", "f"}, pts \in UNION { [1..n -> PayloadPoints] : n \in 0..maxn },
          cut \in {0, 1}, neg \in BOOLEAN }

\* binary32 values of the line slots: 0.0, 10.0, -7.0, 0.5, 40000.0, NaN
SlotSamples ==
    { PackF(0), PackF(10), PackF(-7), << 63, 0, 0, 0 >>, PackF(40000),
      << 127, 192, 0, 0 >> }

\* rect, oval and line records
BoxRecords ==
    { CraftRecord([BlankHeader EXCEPT !.roi_type = t, !.top = b[1], !.left = b[2],
                      !.bottom = b[3], !.right = b[4], !.options = opt,
                      !.x1 = f, !.y2 = g])
        : t \in {1, 2, 3}, opt \in {0, 128},
          b \in { << 0, 0, 10, 10 >>, << 10, 0, 0, 5 >>, << -3, -4, 4, 3 >> },
          f \in SlotSamples, g \in SlotSamples }

\* a polygon record with either magic, cut at some length: inside the
\* header, at its end, inside the payload, or not at all
CutStreams ==
    { SubSeq(CraftRecord([BlankHeader EXCEPT !.magic = m, !.n_coords = 2,
                             !.payload = PackHs(<< 1, 2, 3, 4 >>)]), 1, n)
        : m \in Magics, n \in {0, 3, 4, 10, 63, 64, 70, 72} }

CraftedStreams(maxn) == TypeSweep \cup CoordRecords(maxn) \cup BoxRecords \cup CutStreams

\* entries of an archive: records written by encode_roi and records that
\* fail to decode
EntrySamples ==
    { encode_roi(0, << << 0, 0 >>, << 0, 10 >> >>).bytes,
      encode_roi(1, << << 0, 0 >>, << 10, 10 >> >>).bytes,
      encode_roi(3, << << 0, 0 >>, << 0, 10 >> >>).bytes,
      encode_roi(4, << << 0, 0 >>, << 0, 10 >>, << 10, 20 >> >>).bytes,
      encode_roi(2, << << 0, 0 >>, << 10, 6 >> >>).bytes,
      encode_roi(7, << << 0, 0 >>, << 0, 10 >>, << 10, 20 >> >>).bytes,
      CraftRecord([BlankHeader EXCEPT !.roi_type = 5]),
      CraftRecord([BlankHeader EXCEPT !.roi_type = 1, !.subtype = 1]),
      CraftRecord([BlankHeader EXCEPT !.roi_type = 1, !.shape_roi_size = 1]),
      CraftRecord([BlankHeader EXCEPT !.magic = BadMagic, !.roi_type = 1]),
      SubSeq(CraftRecord([BlankHeader EXCEPT !.roi_type = 0, !.n_coords = 2,
                             !.payload = PackHs(<< 1, 2, 3, 4 >>)]), 1, 70) }

Archives(maxn) == UNION { [1..n -> EntrySamples] : n \in 0..maxn }

----------------------------------------------------------------------------
(* The state machine *)

Pending == Raise("pending", "")

NoLayer == [exc |-> "pending", data |-> << >>, shape_type |-> << >>]

Init ==
    /\ written = "none"
    /\ decoded = Pending
    /\ name_idx = 1
    /\ shape_types = << >>
    /\ data = << >>
    /\ layer_data = NoLayer
    /\ \/ /\ pc = "encode"                      \* a call of encode_roi
          /\ roi_type \in EncodeTypes
          /\ points \in PointSeqs(MaxLen)
          /\ file = << >>
          /\ zip_file = << >>
       \/ /\ pc = "decode"                      \* a stream from elsewhere
          /\ roi_type = -1
          /\ points = << >>
          /\ file \in CraftedStreams(MaxCoords)
          /\ zip_file = << >>
       \/ /\ pc = "zip"                         \* an archive
          /\ roi_type = -1
          /\ points = << >>
          /\ file = << >>
          /\ zip_file \in Archives(MaxEntries)

\* encode_roi(roi_type, points, file_handler)
EncodeRoi ==
    /\ pc = "encode"
    /\ LET r == encode_roi(roi_type, points)
       IN  /\ written' = r.exc
           /\ file' = file \o r.bytes
           /\ pc' = IF r.exc = "ok" THEN "decode" ELSE "done"
    /\ UNCHANGED << roi_type, points, decoded, zip_file, name_idx,
                    shape_types, data, layer_data >>

\* decode_roi(file_handler) with the handler at the start of the stream
DecodeRoi ==
    /\ pc = "decode"
    /\ \E ub \in UBVals : decoded' = decode_roi(file, ub)
    /\ pc' = "done"
    /\ UNCHANGED << roi_type, points, file, written, zip_file, name_idx,
                    shape_types, data, layer_data >>

\* one iteration of the loop of ijroizip_reader
ZipEntry ==
    /\ pc = "zip"
    /\ name_idx <= Len(zip_file)
    /\ \E ub \in UBVals :
        LET r == ijroi_read_binary(zip_file[name_idx], ub)
        IN  IF r.exc = "ValueError" THEN           \* except ValueError: continue
                /\ name_idx' = name_idx + 1
                /\ UNCHANGED << pc, shape_types, data, layer_data >>
            ELSE IF r.exc = "none" THEN
                /\ shape_types' = Append(shape_types, r.shape_type)
                /\ data' = Append(data, r.roi)
                /\ name_idx' = name_idx + 1
                /\ UNCHANGED << pc, layer_data >>
            ELSE                                    \* the exception leaves the call
                /\ layer_data' = [NoLayer EXCEPT !.exc = r.exc]
                /\ pc' = "done"
                /\ UNCHANGED << name_idx, shape_types, data >>
    /\ UNCHANGED << roi_type, points, file, written, decoded, zip_file >>

\* the return statement of ijroizip_reader
ZipReturn ==
    /\ pc = "zip"
    /\ name_idx > Len(zip_file)
    /\ layer_data' = [exc |-> "none", data |-> data, shape_type |-> shape_types]
    /\ pc' = "done"
    /\ UNCHANGED << roi_type, points, file, written, decoded, zip_file,
                    name_idx, shape_types, data >>

Next == EncodeRoi \/ DecodeRoi \/ ZipEntry \/ ZipReturn

Spec == Init /\ [][Next]_vars

----------------------------------------------------------------------------
(* Properties *)

AllInt16(pts) == \A i \in 1..Len(pts) : InInt16(pts[i][1]) /\ InInt16(pts[i][2])

\* encode_roi has run on (roi_type, points); decode_roi has run on its output
Encoded == pc \in {"decode", "done"} /\ roi_type # -1
RoundTripped == pc = "done" /\ written = "ok"

\* decode_roi has run on a stream that encode_roi did not write
DecodedStream == pc = "done" /\ written = "none" /\ decoded.exc # "pending"

\* big-endian signed short at byte offset off of the file
ShortAt(off) ==
    LET u == file[off + 1] * 256 + file[off + 2]
    IN  IF u >= 32768 THEN u - 65536 ELSE u

\* big-endian signed int at byte offset off of the file
IntAt(off) ==
    LET hi == IF file[off + 1] >= 128 THEN file[off + 1] - 256 ELSE file[off + 1]
    IN  hi * 16777216 + file[off + 2] * 65536 + file[off + 3] * 256 + file[off + 4]

\* the integer held by the binary32 at byte offset off of the file
FloatAt(off) == F32Trunc(SubSeq(file, off + 1, off + 4))

HasMagic == Len(file) >= 4 /\ SubSeq(file, 1, 4) = << 73, 111, 117, 116 >>

IsMinOf(v, vals) ==
    /\ \E i \in 1..Len(vals) : vals[i] = v
    /\ \A i \in 1..Len(vals) : v <= vals[i]

IsMaxOf(v, vals) ==
    /\ \E i \in 1..Len(vals) : vals[i] = v
    /\ \A i \in 1..Len(vals) : v >= vals[i]

RowsOf(pts) == [i \in 1..Len(pts) |-> pts[i][1]]
ColsOf(pts) == [i \in 1..Len(pts) |-> pts[i][2]]

\* C1: for roi_type 0, 4 or 7 and points within the int16 range, encode_roi
\* succeeds and decode_roi of the bytes it wrote returns the same roi_type
\* and the same points in the same order.
C1_RoundTripCoords ==
    (roi_type \in {0, 4, 7} /\ AllInt16(points)) =>
        /\ Encoded => written = "ok"
        /\ RoundTripped =>
            /\ decoded.exc = "none"
            /\ decoded.roi_type = roi_type
            /\ decoded.ctype = "int16"
            /\ Len(decoded.points) = Len(points)
            /\ \A i \in 1..Len(points) : decoded.points[i] = points[i]

C1_Witness ==
    /\ RoundTripped
    /\ roi_type = 7
    /\ Len(points) = 3
    /\ points[1] = << -32768, 32767 >>
    /\ points[2] = << -1, 300 >>
    /\ decoded.exc = "none"
    /\ decoded.points[3] = points[3]

\* C2: a polygon, freeline or freehand record with N coordinates decodes to
\* N float points from 8N payload bytes when option bit 128 is set, and to
\* N integer points from 4N payload bytes when it is clear.
C2_SubPixelSelectsEncoding ==
    (/\ DecodedStream
     /\ Len(file) >= 64
     /\ HasMagic
     /\ file[7] \in {0, 4, 7}
     /\ IntAt(36) = 0
     /\ ShortAt(48) = 0
     /\ ShortAt(16) >= 0) =>
        LET n      == ShortAt(16)
            subpix == (file[52] \div 128) % 2 = 1
        IN  /\ (subpix /\ Len(file) = 64 + 8 * n) =>
                 /\ decoded.exc = "none"
                 /\ decoded.ctype = "float32"
                 /\ Len(decoded.points) = n
            /\ (~subpix /\ Len(file) = 64 + 4 * n) =>
                 /\ decoded.exc = "none"
                 /\ decoded.ctype = "int16"
                 /\ Len(decoded.points) = n

\* the entries of an archive that decode, in archive order
Decodable(entries) == SelectSeq(entries, LAMBDA e : decode_roi(e, 0).exc = "none")

\* C3: ijroizip_reader drops exactly the entries that fail to decode and
\* returns every entry that decodes; a failing entry never aborts the call.
C3_FailingEntriesDropped ==
    (pc = "done" /\ layer_data.exc # "pending") =>
        /\ layer_data.exc = "none"
        /\ Len(layer_data.data) = Len(Decodable(zip_file))
        /\ \A i \in 1..Len(layer_data.data) :
              layer_data.data[i] = decode_roi(Decodable(zip_file)[i], 0)

\* C4: with a valid magic and a supported type, decode_roi raises the
\* unsupported-feature error whenever ShapeRoi size or subtype is nonzero,
\* negative values included, and returns geometry only when both are zero.
C4_NonzeroFeatureRejected ==
    (/\ DecodedStream
     /\ Len(file) >= 64
     /\ HasMagic
     /\ file[7] \in {0, 1, 2, 3, 4, 7}) =>
        /\ (IntAt(36) # 0 \/ ShortAt(48) # 0) =>
              /\ decoded.exc = "ValueError"
              /\ decoded.msg \in {"Shape ROI size not supported (!= 0)",
                                  "ROI subtype not supported (!= 0)"}
        /\ decoded.exc = "none" => (IntAt(36) = 0 /\ ShortAt(48) = 0)

\* C5 as stated: a stream whose first four bytes are not "Iout" always
\* raises IOError 'Magic number not found', whatever follows, of any length.
C5_BadMagicAlwaysIOError ==
    (DecodedStream /\ Len(file) >= 4 /\ ~HasMagic) =>
        /\ decoded.exc = "IOError"
        /\ decoded.msg = "Magic number not found"

\* C5 amended: a stream of at least 64 bytes whose first four bytes are not
\* "Iout" raises IOError 'Magic number not found' whatever the other bytes
\* are; a stream of fewer than 64 bytes raises struct.error whatever its
\* first bytes are.  Neither returns a result.
C5_BadMagicIOErrorOnFullHeader ==
    /\ (DecodedStream /\ Len(file) >= 64 /\ ~HasMagic) =>
          decoded = Raise("IOError", "Magic number not found")
    /\ (DecodedStream /\ Len(file) < 64) =>
          (decoded.exc = "struct.error" /\ decoded.points = << >>)

C5_Witness ==
    /\ DecodedStream
    /\ Len(file) = 64
    /\ SubSeq(file, 1, 4) = << 73, 111, 117, 84 >>
    /\ file[7] = 200
    /\ ShortAt(48) = -1
    /\ decoded.exc = "IOError"

\* C6: with the correct magic, a header whose type byte is 5, 6, 8, 9, 10 or
\* 11..255 raises the unsupported-type error whatever the other fields are;
\* geometry is returned only for the types 0, 1, 2, 3, 4 and 7.
C6_UnsupportedTypeRejected ==
    /\ (/\ DecodedStream
        /\ Len(file) >= 64
        /\ HasMagic
        /\ file[7] \in ({5, 6, 8, 9, 10} \cup (11..255))) =>
          decoded = Raise("ValueError", "ROI type not supported")
    /\ (pc = "done" /\ decoded.exc = "none") =>
          (decoded.roi_type \in {0, 1, 2, 3, 4, 7} /\ decoded.roi_type = file[7])

C6_Witness ==
    /\ DecodedStream
    /\ Len(file) = 64
    /\ HasMagic
    /\ file[7] = 5
    /\ IntAt(36) = 1
    /\ ShortAt(48) = -1
    /\ decoded.msg = "ROI type not supported"

\* C7: for roi_type 1 and one or more points within the int16 range,
\* encode_roi succeeds and decode_roi returns roi_type 1 and the four points
\* (min_row, min_col), (min_row, max_col), (max_row, max_col),
\* (max_row, min_col) of the bounding box of the input.
C7_RectRoundTrip ==
    (roi_type = 1 /\ Len(points) >= 1 /\ AllInt16(points)) =>
        /\ Encoded => written = "ok"
        /\ RoundTripped =>
            /\ decoded.exc = "none"
            /\ decoded.roi_type = 1
            /\ Len(decoded.points) = 4
            /\ IsMinOf(decoded.points[1][1], RowsOf(points))
            /\ IsMinOf(decoded.points[1][2], ColsOf(points))
            /\ IsMaxOf(decoded.points[3][1], RowsOf(points))
            /\ IsMaxOf(decoded.points[3][2], ColsOf(points))
            /\ decoded.points[2] = << decoded.points[1][1], decoded.points[3][2] >>
            /\ decoded.points[4] = << decoded.points[3][1], decoded.points[1][2] >>

\* unordered input with a redundant point
C7_Witness ==
    /\ RoundTripped
    /\ roi_type = 1
    /\ points = << << 10, 20 >>, << -1, 300 >>, << 0, 10 >> >>
    /\ decoded.points = << << -1, 10 >>, << -1, 300 >>, << 10, 300 >>, << 10, 10 >> >>

\* C8 as stated: for roi_type 3 and two or more points within the int16
\* range, encode_roi succeeds and decode_roi returns roi_type 3 and the
\* first two points.
C8_LineRoundTripAnyLength ==
    (roi_type = 3 /\ Len(points) >= 2 /\ AllInt16(points)) =>
        /\ Encoded => written = "ok"
        /\ RoundTripped =>
            /\ decoded.exc = "none"
            /\ decoded.roi_type = 3
            /\ decoded.points = << points[1], points[2] >>

\* C8 amended: for roi_type 3 and exactly two points within the int16
\* range, encode_roi succeeds and decode_roi returns roi_type 3 and those
\* two points in order; for one point, or three or more, encode_roi raises
\* ValueError and writes nothing.
C8_LineRoundTripTwoPoints ==
    /\ (roi_type = 3 /\ Len(points) = 2 /\ AllInt16(points)) =>
          /\ Encoded => written = "ok"
          /\ RoundTripped =>
              /\ decoded.exc = "none"
              /\ decoded.roi_type = 3
              /\ decoded.ctype = "int16"
              /\ decoded.points = << points[1], points[2] >>
    /\ (roi_type = 3 /\ Len(points) \notin {0, 2} /\ Encoded) =>
          (written = "ValueError" /\ file = << >> /\ pc = "done")

C8_Witness ==
    /\ RoundTripped
    /\ roi_type = 3
    /\ points = << << -32768, 32767 >>, << -1, 300 >> >>
    /\ decoded.points = points

\* C9: the type-dependent fields of the record written by encode_roi:
\* bounding box (bytes 8-15), coordinate count (16-17), line slots (18-33)
\* and payload (64-), per roi type.
C9_HeaderFieldsPerType ==
    (Encoded /\ written = "ok" /\ roi_type \in {0, 1, 2, 3, 4, 7}) =>
        LET n == Len(points)
            top == ShortAt(8)
            left == ShortAt(10)
            bottom == ShortAt(12)
            right == ShortAt(14)
            zerobox == top = 0 /\ left = 0 /\ bottom = 0 /\ right = 0
            zeroslots == \A k \in 19..34 : file[k] = 0
        IN  /\ HasMagic
            /\ file[7] = roi_type
            /\ roi_type \in {0, 4, 7} =>
                 /\ zerobox /\ zeroslots
                 /\ ShortAt(16) = n
                 /\ Len(file) = 64 + 4 * n
                 /\ \A i \in 1..n : /\ ShortAt(64 + 2 * (i - 1)) = points[i][2]
                                    /\ ShortAt(64 + 2 * n + 2 * (i - 1)) = points[i][1]
            /\ roi_type = 1 =>
                 /\ IsMinOf(top, RowsOf(points)) /\ IsMaxOf(bottom, RowsOf(points))
                 /\ IsMinOf(left, ColsOf(points)) /\ IsMaxOf(right, ColsOf(points))
                 /\ zeroslots /\ ShortAt(16) = 0 /\ Len(file) = 64
            /\ roi_type = 2 =>
                 /\ IsMinOf(bottom, RowsOf(points)) /\ IsMaxOf(top, RowsOf(points))
                 /\ IsMinOf(left, ColsOf(points)) /\ IsMaxOf(right, ColsOf(points))
                 /\ zeroslots /\ ShortAt(16) = 0 /\ Len(file) = 64
            /\ roi_type = 3 =>
                 /\ zerobox /\ ShortAt(16) = 0 /\ Len(file) = 64
                 /\ FloatAt(18) = points[1][2] /\ FloatAt(22) = points[1][1]
                 /\ FloatAt(26) = points[2][2] /\ FloatAt(30) = points[2][1]

C9_Witness ==
    /\ Encoded
    /\ written = "ok"
    /\ roi_type = 2
    /\ points = << << 10, 20 >>, << -1, 300 >>, << 0, 10 >> >>
    /\ ShortAt(8) = 10
    /\ ShortAt(12) = -1
    /\ ShortAt(10) = 10
    /\ ShortAt(14) = 300

\* C10: byte 7 of every record written by encode_roi is zero.
C10_ReservedByteZero ==
    (Encoded /\ written = "ok") => file[8] = 0

\* the shape kind of a roi type
KindOf(t) == IF t \in {0, 1, 2, 7} THEN "polygon" ELSE "path"

\* the entries the loop of ijroizip_reader has gone through
Processed == SubSeq(zip_file, 1, name_idx - 1)

\* C11: at every point of the loop of ijroizip_reader, shape_types and data
\* have the same length, one item per entry that decoded among the entries
\* gone through, in archive order: item i of shape_types is the shape kind
\* of the i-th decoded entry's roi type ({0,1,2,7} -> polygon, {3,4} ->
\* path) and item i of data is that entry's points; the one layer returned
\* holds these two lists.
C11_ListsAligned ==
    /\ (pc = "zip" \/ layer_data.exc # "pending") =>
        LET kept == Decodable(Processed)
        IN  /\ Len(shape_types) = Len(data)
            /\ Len(data) = Len(kept)
            /\ \A i \in 1..Len(kept) :
                  /\ kept[i][7] \in {0, 1, 2, 3, 4, 7}
                  /\ shape_types[i] = KindOf(kept[i][7])
                  /\ data[i].roi_type = kept[i][7]
                  /\ data[i].points = decode_roi(kept[i], 0).points
                  /\ data[i].ellipse = decode_roi(kept[i], 0).ellipse
    /\ layer_data.exc = "none" =>
        /\ name_idx = Len(zip_file) + 1
        /\ layer_data.data = data
        /\ layer_data.shape_type = shape_types

\* a freeline, a dropped polyline and a freehand: path then polygon
C11_Witness ==
    /\ layer_data.exc = "none"
    /\ Len(zip_file) = 3
    /\ zip_file[1][7] = 4
    /\ zip_file[2][7] = 5
    /\ zip_file[3][7] = 7
    /\ layer_data.shape_type = << "path", "polygon" >>
    /\ Len(layer_data.data) = 2
    /\ layer_data.data[1].points = << << 0, 0 >>, << 0, 10 >>, << 10, 20 >> >>

Abs(v) == IF v < 0 THEN -v ELSE v

\* C12: for roi_type 2 the ellipse decode_roi derives from the record
\* written by encode_roi has its centre at the midpoint of the bounding box
\* of the input, ((min_row + max_row) / 2, (min_col + max_col) / 2), and the
\* bounding box of the input as its own, odd heights and widths included.
\* (decoded.ellipse = <<centre, extent along rows, extent along columns>>;
\* stated on doubled values to stay within the integers.)
C12_OvalCentreIsMidpoint ==
    (RoundTripped /\ roi_type = 2 /\ AllInt16(points)) =>
        /\ decoded.exc = "none"
        /\ decoded.roi_type = 2
        /\ LET cy == decoded.ellipse[1][1]
               cx == decoded.ellipse[1][2]
               h  == Abs(decoded.ellipse[2])
               w  == Abs(decoded.ellipse[3])
           IN  /\ \E lo \in {points[i][1] : i \in 1..Len(points)},
                     hi \in {points[i][1] : i \in 1..Len(points)} :
                     /\ IsMinOf(lo, RowsOf(points)) /\ IsMaxOf(hi, RowsOf(points))
                     /\ 2 * cy = lo + hi
                     /\ 2 * cy - h = 2 * lo
                     /\ 2 * cy + h = 2 * hi
               /\ \E lo \in {points[i][2] : i \in 1..Len(points)},
                     hi \in {points[i][2] : i \in 1..Len(points)} :
                     /\ IsMinOf(lo, ColsOf(points)) /\ IsMaxOf(hi, ColsOf(points))
                     /\ 2 * cx = lo + hi
                     /\ 2 * cx - w = 2 * lo
                     /\ 2 * cx + w = 2 * hi

====
